---- MODULE Spec2Model ----
(***************************************************************************)
(* State-machine model of monitor_autos.py: one pass of run_once (store,   *)
(* driver, template loop, dedup check, classification, audit log, capped   *)
(* WhatsApp dispatch) and the pure helpers it calls.  Text is modelled as  *)
(* sequences of one-character strings so that lower(), `in`, split() and   *)
(* slicing are computed, not assumed.                                      *)
(***************************************************************************)
EXTENDS Integers, Sequences, FiniteSets, TLC

\* ------------------------------------------------------------------------
\* Bounds of the model
\* ------------------------------------------------------------------------

\* number of run_once invocations (processes) modelled
MaxRuns == 2

\* largest number of listing elements a rendered page holds
MaxCards == 2

\* ------------------------------------------------------------------------
\* Python string primitives on sequences of characters
\* ------------------------------------------------------------------------

\* the elements of a sequence
Range(q) == {q[i] : i \in 1..Len(q)}

\* s[:n]
Take(s, n) == IF Len(s) <= n THEN s ELSE SubSeq(s, 1, n)

\* `needle in hay`
Contains(needle, hay) ==
    \E i \in 1..(Len(hay) + 1 - Len(needle)) :
        \A j \in 1..Len(needle) : hay[i + j - 1] = needle[j]

\* str.lower() on the characters the model uses
LowerChar(c) ==
    CASE c = "A" -> "a" [] c = "E" -> "e" [] c = "I" -> "i" [] c = "K" -> "k"
      [] c = "N" -> "n" [] c = "O" -> "o" [] c = "P" -> "p" [] c = "R" -> "r"
      [] c = "U" -> "u" [] c = "V" -> "v" [] c = "W" -> "w" [] c = "F" -> "f"
      [] c = "M" -> "m" [] c = "Y" -> "y" [] c = "D" -> "d" [] c = "S" -> "s"
      [] OTHER -> c

Lower(s) == [i \in 1..Len(s) |-> LowerChar(s[i])]

\* index of the first occurrence of character c in s, Len(s)+1 when absent
RECURSIVE FirstIndex(_, _, _)
FirstIndex(s, c, i) ==
    IF i > Len(s) THEN i
    ELSE IF s[i] = c THEN i
    ELSE FirstIndex(s, c, i + 1)

\* s.split(c)[0]
SplitFirst(s, c) == SubSeq(s, 1, FirstIndex(s, c, 1) - 1)

\* s.split(c)[n] for n >= 0; <<>> marks an IndexError-free empty field
RECURSIVE SplitNth(_, _, _)
SplitNth(s, c, n) ==
    IF n = 0 THEN SplitFirst(s, c)
    ELSE LET i == FirstIndex(s, c, 1)
         IN  IF i > Len(s) THEN <<>> ELSE SplitNth(SubSeq(s, i + 1, Len(s)), c, n - 1)

\* str.strip() for the blank character
RECURSIVE LStrip(_)
LStrip(s) == IF s # <<>> /\ Head(s) = " " THEN LStrip(Tail(s)) ELSE s

RECURSIVE RStrip(_)
RStrip(s) ==
    IF s # <<>> /\ s[Len(s)] = " " THEN RStrip(SubSeq(s, 1, Len(s) - 1)) ELSE s

Strip(s) == RStrip(LStrip(s))

\* n copies of character c
Pad(c, n) == [i \in 1..n |-> c]

\* ------------------------------------------------------------------------
\* Configuration (module-level values loaded from .env at import)
\* ------------------------------------------------------------------------

\* MAX_SEND_PER_RUN = parse_int("MAX_SEND_PER_RUN", 8): the configured cap
MAX_SEND_PER_RUN == 2

\* CAR_BRANDS_MODELS = parse_list(...): configured brand/model phrases
CAR_BRANDS_MODELS == << <<"V", "W">> >>

\* KEYWORDS = parse_list(...): configured keyword phrases
KEYWORDS == << <<"u", "n", "f">>, <<"b", "l">>, <<"r", "e">>, <<"k", "a">> >>

\* lines of search_urls.txt
URL_MOBILE == <<"h", ":", "/", "/", "m", "o", "b", "i", "l", "e", ".", "d", "e", "/", "s">>
URL_OTHER == <<"h", ":", "/", "/", "x", ".", "t", "e", "s", "t", "/", "{", "k", "m", "}">>
SEARCH_URLS == << URL_MOBILE, URL_OTHER >>

\* ------------------------------------------------------------------------
\* DB / caching: table seen(link PRIMARY KEY, title, site, price, first_seen)
\* ------------------------------------------------------------------------

\* a lookup that never finds the row
is_seen_Never(rows, link) == FALSE

\* SELECT 1 FROM seen WHERE link = ?
is_seen(rows, link) == \E row \in rows : row.link = link

\* INSERT OR REPLACE INTO seen ... ; commit
mark_seen_Replace(rows, link, title, site, price, now) ==
    {row \in rows : row.link # link}
        \cup {[link |-> link, title |-> title, site |-> site,
               price |-> price, first_seen |-> now]}

\* INSERT OR IGNORE INTO seen ... ; commit
mark_seen(rows, link, title, site, price, now) ==
    IF \E row \in rows : row.link = link
    THEN rows
    ELSE rows \cup {[link |-> link, title |-> title, site |-> site,
                     price |-> price, first_seen |-> now]}

\* ------------------------------------------------------------------------
\* WhatsApp via CallMeBot
\* ------------------------------------------------------------------------

APIKEY_INVALID == <<"A", "P", "I", "K", "e", "y", " ", "i", "s", " ", "i", "n", "v", "a", "l", "i", "d">>
ERROR_MARKER == <<"e", "r", "r", "o", "r">>

\* body_snip = (r.text or "")[:300]
SNIP_LEN == 300

\* what requests.get can do: raise, or return a status and a body
\* (numbered, so that a run can note which answer it got)
Responses ==
    << [kind |-> "exception", status |-> 0, text |-> <<>>],
      [kind |-> "http", status |-> 200, text |-> <<"M", "e", "s", "s", "a", "g", "e", " ", "q", "u", "e", "u", "e", "d">>],
      [kind |-> "http", status |-> 200, text |-> APIKEY_INVALID],
      [kind |-> "http", status |-> 200, text |-> <<"E", "R", "R", "O", "R", " ", "7">>],
      [kind |-> "http", status |-> 500, text |-> <<"M", "e", "s", "s", "a", "g", "e", " ", "q", "u", "e", "u", "e", "d">>],
      [kind |-> "http", status |-> 200, text |-> Pad(".", SNIP_LEN) \o APIKEY_INVALID],
      [kind |-> "http", status |-> 200, text |-> Pad(".", SNIP_LEN - 3) \o ERROR_MARKER] >>

\* send_whatsapp(message) -> bool, given the credentials and the gateway's answer
send_whatsapp(have_creds, resp) ==
    IF ~have_creds THEN FALSE
    ELSE IF resp.kind = "exception" THEN FALSE
    ELSE LET body_snip == Take(resp.text, SNIP_LEN)
         IN  IF resp.status = 200
             THEN IF Contains(APIKEY_INVALID, body_snip)
                     \/ Contains(ERROR_MARKER, Lower(body_snip))
                  THEN FALSE
                  ELSE TRUE
             ELSE FALSE

\* send_whatsapp for each gateway answer, without and with credentials
SendResult ==
    [i \in 1..Len(Responses) |->
        <<send_whatsapp(FALSE, Responses[i]), send_whatsapp(TRUE, Responses[i])>>]

\* ------------------------------------------------------------------------
\* Utilities
\* ------------------------------------------------------------------------

\* text_contains_keywords(text, keywords)
text_contains_keywords(text, keywords) ==
    IF text = <<>> THEN FALSE
    ELSE LET t == Lower(text)
         IN  \E i \in 1..Len(keywords) : Contains(Lower(keywords[i]), t)

LABEL_MOBILE == <<"m", "o", "b", "i", "l", "e", ".", "d", "e">>
LABEL_AUTOSCOUT == <<"a", "u", "t", "o", "s", "c", "o", "u", "t", "2", "4">>
LABEL_WILLHABEN == <<"w", "i", "l", "l", "h", "a", "b", "e", "n">>
LABEL_LEBONCOIN == <<"l", "e", "b", "o", "n", "c", "o", "i", "n">>
LABEL_FINN == <<"f", "i", "n", "n", ".", "n", "o">>
LABEL_BLOCKET == <<"b", "l", "o", "c", "k", "e", "t">>

\* detect_site_label(url)
detect_site_label(url) ==
    LET hostname == IF Contains(<<"/", "/">>, url) THEN SplitNth(url, "/", 2) ELSE url
    IN  IF Contains(LABEL_MOBILE, hostname) THEN LABEL_MOBILE
        ELSE IF Contains(LABEL_AUTOSCOUT, hostname) THEN LABEL_AUTOSCOUT
        ELSE IF Contains(LABEL_WILLHABEN, hostname) THEN LABEL_WILLHABEN
        ELSE IF Contains(LABEL_LEBONCOIN, hostname) THEN LABEL_LEBONCOIN
        ELSE IF Contains(LABEL_FINN, hostname) THEN LABEL_FINN
        ELSE IF Contains(LABEL_BLOCKET, hostname) THEN LABEL_BLOCKET
        ELSE hostname

\* ------------------------------------------------------------------------
\* Parsers.  A rendered listing element is a record
\*   [h2, href, a_text, price, text]
\* where a field the page lacks is already the empty string the parser's
\* except-branch produces.
\* ------------------------------------------------------------------------

\* elem.text[:100]
TITLE_LEN == 100

\* parse_mobile_listing(elem) -> (title, link, price, desc)
parse_mobile_listing(e) ==
    [title |-> e.h2, link |-> e.href, price |-> e.price, desc |-> e.text]

\* parse_autoscout_listing(elem)
parse_autoscout_listing(e) ==
    [title |-> e.h2, link |-> e.href, price |-> e.price, desc |-> e.text]

\* parse_generic_listing(elem): title from the anchor, else elem.text[:100]
parse_generic_listing(e) ==
    [title |-> IF e.a_text # <<>> THEN e.a_text ELSE Take(e.text, TITLE_LEN),
     link |-> e.href, price |-> <<>>, desc |-> e.text]

\* ------------------------------------------------------------------------
\* Core scraping.  A rendered page is [elems, alt, anchors]: what the site's
\* first selector, its second selector and the selector "a" return.  A fault
\* is [kind, flow_at, anchors_at]: kind "load" is a WebDriverException from
\* driver.get, "error" any other exception leaving scrape_site; flow_at = k
\* >= 0 makes the site-specific flow raise after k results, anchors_at = k
\* >= 0 makes the anchor fallback raise after k anchors; -1 is no fault.
\* ------------------------------------------------------------------------

LEBONCOIN_CAP == 50
ANCHOR_CAP == 200

KnownLabels ==
    {LABEL_MOBILE, LABEL_AUTOSCOUT, LABEL_WILLHABEN, LABEL_LEBONCOIN,
     LABEL_FINN, LABEL_BLOCKET}

\* the elements the site-specific flow of `label` iterates over
FlowElems(label, page) ==
    IF label = LABEL_WILLHABEN
    THEN IF page.elems # <<>> THEN page.elems ELSE page.alt
    ELSE IF label = LABEL_LEBONCOIN
    THEN Take(IF page.elems # <<>> THEN page.elems ELSE page.alt, LEBONCOIN_CAP)
    ELSE page.elems

\* the parser the site-specific flow of `label` applies
FlowParse(label, e) ==
    IF label = LABEL_MOBILE THEN parse_mobile_listing(e)
    ELSE IF label = LABEL_AUTOSCOUT THEN parse_autoscout_listing(e)
    ELSE parse_generic_listing(e)

WithSite(label, p) ==
    [site |-> label, title |-> p.title, link |-> p.link, price |-> p.price,
     desc |-> p.desc]

\* href and (... in href): the generic fallback's filter
AnchorPasses(href) ==
    /\ href # <<>>
    /\ \/ Contains(<<"/", "p", "r", "o", "d", "u", "c", "t">>, href)
       \/ Contains(<<"/", "a", "d">>, href)
       \/ Contains(<<"/", "c", "a", "r">>, href)
       \/ Contains(<<"d", "e", "t", "a", "i", "l">>, href)

\* results of the generic anchors fallback over the anchors a[1..n]
RECURSIVE AnchorResults(_, _, _)
AnchorResults(label, anchors, i) ==
    IF i > Len(anchors) THEN <<>>
    ELSE LET a == anchors[i]
         IN  (IF AnchorPasses(a.href)
              THEN << [site |-> label, title |-> Strip(a.text), link |-> a.href,
                       price |-> <<>>, desc |-> a.text] >>
              ELSE <<>>) \o AnchorResults(label, anchors, i + 1)

\* the fallback block with its own try/except
GenericFallback(label, page, fault) ==
    LET anchors == IF fault.anchors_at >= 0
                   THEN Take(Take(page.anchors, ANCHOR_CAP), fault.anchors_at)
                   ELSE Take(page.anchors, ANCHOR_CAP)
    IN  AnchorResults(label, anchors, 1)

\* scrape_site(driver, url) -> results, for the page and fault the driver meets
scrape_site(url, page, fault) ==
    LET label == detect_site_label(url)
        elems == FlowElems(label, page)
        parsed == [i \in 1..Len(elems) |-> WithSite(label, FlowParse(label, elems[i]))]
        raises == fault.flow_at >= 0
                  /\ (fault.flow_at = 0 \/ fault.flow_at < Len(elems))
    IN  IF fault.kind = "load" THEN <<>>
        ELSE IF label \in KnownLabels
        THEN IF ~raises THEN parsed
             ELSE Take(parsed, fault.flow_at) \o GenericFallback(label, page, fault)
        ELSE GenericFallback(label, page, fault)

\* ------------------------------------------------------------------------
\* The listing elements the sources can render
\* ------------------------------------------------------------------------

\* brand phrase in title and text, link with a query string
CARD_A1 == [h2 |-> <<"v", "w">>, href |-> <<"/", "a", "d", "?", "1">>, a_text |-> <<"v", "w">>, price |-> <<"9">>, text |-> <<"v", "w", " ", "9">>]
\* keyword phrase (mixed case), same link as CARD_A1 up to the query string
CARD_A2 == [h2 |-> <<"U", "n", "f">>, href |-> <<"/", "a", "d", "?", "2">>, a_text |-> <<>>, price |-> <<>>, text |-> <<"U", "n", "f">>]
\* no title, brand phrase (upper case) in the text only
CARD_B == [h2 |-> <<>>, href |-> <<"/", "c", "a", "r">>, a_text |-> <<"V", "W">>, price |-> <<>>, text |-> <<"V", "W">>]
\* keyword phrase, link that is only a query string
CARD_Q == [h2 |-> <<"U", "n", "f">>, href |-> <<"?", "1">>, a_text |-> <<"U", "n", "f">>, price |-> <<>>, text |-> <<"U", "n", "f">>]
\* brand phrase, no link at all
CARD_E == [h2 |-> <<"v", "w">>, href |-> <<>>, a_text |-> <<>>, price |-> <<>>, text |-> <<"v", "w">>]
\* neither a brand nor a keyword phrase
CARD_N == [h2 |-> <<"z">>, href |-> <<"/", "a", "d", "/", "n">>, a_text |-> <<"z">>, price |-> <<"5">>, text |-> <<"z", " ", "5">>]

Cards == {CARD_A1, CARD_A2, CARD_B, CARD_Q, CARD_E, CARD_N}

\* the anchors of a page: one per listing element
AnchorsOf(elems) ==
    [i \in 1..Len(elems) |-> [href |-> elems[i].href, text |-> elems[i].a_text]]

\* the rendered page that holds the listing elements elems
PageOf(elems) == [elems |-> elems, alt |-> <<>>, anchors |-> AnchorsOf(elems)]

NoFault == [kind |-> "none", flow_at |-> -1, anchors_at |-> -1]
LoadFault == [kind |-> "load", flow_at |-> -1, anchors_at |-> -1]
ErrorFault == [kind |-> "error", flow_at |-> -1, anchors_at |-> -1]
\* the site-specific flow raises at find_elements: the anchor fallback runs
FlowFault == [kind |-> "flow", flow_at |-> 0, anchors_at |-> -1]
\* the anchor fallback raises at find_elements
AnchorsFault == [kind |-> "anchors", flow_at |-> 0, anchors_at |-> 0]

\* the faults one fetch of a page can meet in a run
RunFaults == {NoFault, LoadFault, ErrorFault, FlowFault, AnchorsFault}

\* the contents search_urls.txt can have: missing/empty, or the two templates
TemplateFiles == {<<>>, SEARCH_URLS}

\* ------------------------------------------------------------------------
\* State
\* ------------------------------------------------------------------------

Runs == 1..MaxRuns

\* the two runs that may overlap in time in the scenario "overlap"
Overlapping == {1, 2}

\* the values of the loop variables (site, title, link, price, desc) before
\* the first candidate is bound
NoCand == [site |-> <<>>, title |-> <<>>, link |-> <<>>, price |-> <<>>, desc |-> <<>>]

\* the raw link used as the key
LinkNorm_Raw(link) == link

\* raw link with the query string removed: link.split("?")[0]
LinkNorm(link) == SplitFirst(link, "?")

\* the dedup keys the listing elements can have
Keys == {LinkNorm(e.href) : e \in Cards}

VARIABLES
    scenario,     \* how runs are scheduled: "seq", "rerun" or "overlap"
    store,        \* rows of table seen in DB_FILE
    csv,          \* CSV_FILE: [exists, rows]
    pc,           \* per run: position in run_once
    conn,         \* per run: "none", "open", "closed"
    driver,       \* per run: "none", "live", "quit"
    templates,    \* per run: result of read_search_urls
    tIdx,         \* per run: index of the template of the for loop
    url,          \* per run: the url the template resolved to
    fault,        \* per run: the fault met by scrape_site for that template
    nElem,        \* per run: listing elements of the page consumed so far
    cand,         \* per run: (site, title, link, price, desc) of the inner loop
    all_new,      \* per run: the new-matches list
    count,        \* per run: successful sends
    sIdx,         \* per run: index into all_new of the send loop
    creds,        \* per run: CALLMEBOT_APIKEY and PHONE are both set
    warned,       \* per run: "[WARN] CallMeBot API key or PHONE not set" lines printed
    requests,     \* per run: requests.get calls made to the gateway
    exc,          \* per run: the exception propagating out of the try block
    fetched,      \* history, per run: how scrape_site ended for each template, in order
    qualified,    \* history, per run: keys that passed brand_hit or kw_hit
    handed,       \* history, per run: links passed to send_whatsapp, in order
    delivered,    \* history, per run: links send_whatsapp returned True for
    lastResp,     \* history, per run ("seq"): index in Responses of the latest answer
    lastOk,       \* history, per run ("seq"): what send_whatsapp returned for it
    returned,     \* history, per run ("rerun"): tuples scrape_site returned
    prev,         \* history ("rerun"): the previous run's outcome and candidates
    newCount,     \* history: per key, appends to any run's all_new
    attempts,     \* history ("seq"): per key, the outcome of its send attempts
    page,         \* ("scrape") the rendered page the driver holds
    found         \* ("scrape") what scrape_site returned for it

vars ==
    <<scenario, store, csv, pc, conn, driver, templates, tIdx, url, fault,
      nElem, cand, all_new, count, sIdx, creds, warned, requests, exc,
      fetched, qualified,
      handed, delivered, lastResp, lastOk, returned, prev, newCount,
      attempts, page, found>>

resources == <<conn, driver>>
scrapeVars == <<page, found>>
loopVars == <<templates, tIdx, url, fault, nElem, cand>>
sendVars ==
    <<count, sIdx, creds, warned, requests, handed, delivered, lastResp, lastOk,
      attempts>>

NoPrev == [completed |-> FALSE, returned |-> {}, templates |-> <<>>]

\* the state before any run has started, but for the runs' positions,
\* resources and templates
InitRest ==
    /\ store = {}
    /\ csv = [exists |-> FALSE, rows |-> <<>>]
    /\ creds = [r \in Runs |-> FALSE]
    /\ warned = [r \in Runs |-> 0]
    /\ requests = [r \in Runs |-> 0]
    /\ tIdx = [r \in Runs |-> 1]
    /\ nElem = [r \in Runs |-> 0]
    /\ cand = [r \in Runs |-> NoCand]
    /\ all_new = [r \in Runs |-> <<>>]
    /\ count = [r \in Runs |-> 0]
    /\ sIdx = [r \in Runs |-> 1]
    /\ exc = [r \in Runs |-> "none"]
    /\ fetched = [r \in Runs |-> <<>>]
    /\ qualified = [r \in Runs |-> {}]
    /\ handed = [r \in Runs |-> <<>>]
    /\ delivered = [r \in Runs |-> <<>>]
    /\ lastResp = [r \in Runs |-> 0]
    /\ lastOk = [r \in Runs |-> FALSE]
    /\ returned = [r \in Runs |-> {}]
    /\ prev = NoPrev
    /\ newCount = [k \in Keys |-> 0]
    /\ attempts = [k \in Keys |-> "none"]

\* no run has started
InitIn(sc) ==
    /\ scenario = sc
    /\ pc = [r \in Runs |-> "idle"]
    /\ conn = [r \in Runs |-> "none"]
    /\ driver = [r \in Runs |-> "none"]
    /\ templates = [r \in Runs |-> <<>>]
    /\ url = [r \in Runs |-> <<>>]
    /\ fault = [r \in Runs |-> NoFault]
    /\ page = PageOf(<<>>)
    /\ found = <<>>
    /\ InitRest

\* runs one after the other: the way the tool is scheduled
Init == InitIn("seq")

\* datetime.now(timezone.utc) as read by run r
Now(r) == r

\* ------------------------------------------------------------------------
\* run_once, step by step.  found = scrape_site(driver, url) is read only by
\* the inner for loop, one tuple after the other, and scrape_site maps the
\* page's listing elements to tuples one by one; so the page is revealed
\* element by element as the loop reaches it: each step of the inner loop
\* draws the next element and applies scrape_site to it.
\* ------------------------------------------------------------------------

\* the process of run r is launched: after the previous one has ended, or,
\* in the scenario "overlap", at any time for the two overlapping runs; in
\* the scenario "rerun" a run follows a run that completed
Launch(r) ==
    /\ pc[r] = "idle"
    /\ IF scenario = "overlap" THEN r \in Overlapping
       ELSE /\ \A q \in Runs : q < r => pc[q] = "exited"
            /\ (scenario = "rerun" /\ r > 1) => prev.completed
    /\ pc' = [pc EXCEPT ![r] = "init_db"]
    /\ UNCHANGED <<scenario, scrapeVars, store, csv, resources, loopVars, all_new, sendVars,
                   exc, fetched, qualified, returned, prev, newCount>>

\* conn = init_db(DB_FILE)
InitDb(r) ==
    /\ pc[r] = "init_db"
    /\ \E ok \in BOOLEAN :
        IF ok
        THEN /\ conn' = [conn EXCEPT ![r] = "open"]
             /\ pc' = [pc EXCEPT ![r] = "init_driver"]
        ELSE /\ conn' = conn
             /\ pc' = [pc EXCEPT ![r] = "raised"]
    /\ UNCHANGED <<scenario, scrapeVars, store, csv, driver, loopVars, all_new, sendVars,
                   exc, fetched, qualified, returned, prev, newCount>>

\* driver = init_driver(headless=headless_env)
InitDriver(r) ==
    /\ pc[r] = "init_driver"
    /\ \E ok \in BOOLEAN :
        IF ok
        THEN /\ driver' = [driver EXCEPT ![r] = "live"]
             /\ pc' = [pc EXCEPT ![r] = "read_templates"]
        ELSE /\ driver' = driver
             /\ pc' = [pc EXCEPT ![r] = "raised"]
    /\ UNCHANGED <<scenario, scrapeVars, store, csv, conn, loopVars, all_new, sendVars,
                   exc, fetched, qualified, returned, prev, newCount>>

\* the template files run r can find: in the scenario "rerun" the same as
\* the run before; in the scenario "overlap" both runs read the one-line file
TemplateFilesOf(r) ==
    IF scenario = "rerun" /\ r > 1 THEN {prev.templates}
    ELSE IF scenario = "overlap" THEN {<<URL_MOBILE>>}
    ELSE TemplateFiles

\* templates = read_search_urls(Path(SEARCH_URLS_FILE)); may raise on open/decode
ReadTemplates(r) ==
    /\ pc[r] = "read_templates"
    /\ \/ \E ts \in TemplateFilesOf(r) :
            /\ templates' = [templates EXCEPT ![r] = ts]
            /\ pc' = [pc EXCEPT ![r] = IF ts = <<>> THEN "finally" ELSE "resolve"]
       \/ /\ templates' = templates
          /\ pc' = [pc EXCEPT ![r] = "raised"]
    /\ UNCHANGED <<scenario, scrapeVars, store, csv, resources, tIdx, url, fault, nElem, cand,
                   all_new, sendVars, exc, fetched, qualified, returned,
                   prev, newCount>>

\* str(MIN_YEAR), str(MAX_YEAR), ... as template.format renders them
MIN_YEAR == <<"2", "0", "1", "9">>
MAX_YEAR == <<"2", "0", "2", "5">>
MIN_KM == <<"0">>
MAX_KM == <<"1", "5", "0", "0", "0", "0">>
MIN_PRICE == <<"5", "0", "0", "0">>
MAX_PRICE == <<"2", "5", "0", "0", "0">>

\* sep.join(parts)
RECURSIVE Join(_, _)
Join(sep, parts) ==
    IF parts = <<>> THEN <<>>
    ELSE IF Len(parts) = 1 THEN parts[1]
    ELSE parts[1] \o sep \o Join(sep, Tail(parts))

\* kw without the [:3]
KwParam_All == IF KEYWORDS = <<>> THEN <<>> ELSE Join(<<"+">>, KEYWORDS)

\* kw = "+".join(KEYWORDS[:3]) if KEYWORDS else ""
KwParam == IF KEYWORDS = <<>> THEN <<>> ELSE Join(<<"+">>, Take(KEYWORDS, 3))

\* format_kwargs, lines 424-435
format_kwargs ==
    { [name |-> <<"y", "e", "a", "r">>, value |-> MIN_YEAR],
      [name |-> <<"m", "i", "n", "_", "y", "e", "a", "r">>, value |-> MIN_YEAR],
      [name |-> <<"m", "a", "x", "_", "y", "e", "a", "r">>, value |-> MAX_YEAR],
      [name |-> <<"k", "m">>, value |-> MAX_KM],
      [name |-> <<"m", "i", "n", "_", "k", "m">>, value |-> MIN_KM],
      [name |-> <<"m", "a", "x", "_", "k", "m">>, value |-> MAX_KM],
      [name |-> <<"p", "r", "i", "c", "e">>, value |-> MAX_PRICE],
      [name |-> <<"m", "i", "n", "_", "p", "r", "i", "c", "e">>, value |-> MIN_PRICE],
      [name |-> <<"m", "a", "x", "_", "p", "r", "i", "c", "e">>, value |-> MAX_PRICE],
      [name |-> <<"k", "w">>, value |-> KwParam] }

FormatFailed == [ok |-> FALSE, out |-> <<>>]

\* c followed by the rest of a formatted string, unless the rest failed
FormatCons(c, rest) == IF rest.ok THEN [ok |-> TRUE, out |-> c \o rest.out] ELSE rest

\* str.format(**format_kwargs) from position i of t: "{{" and "}}" are
\* literal braces, "{name}" is replaced by the keyword's value; an unknown
\* or positional field (KeyError, IndexError) and a single brace
\* (ValueError) raise.  Fields with a conversion or a format spec are not
\* among the templates of the model.
RECURSIVE FormatFrom(_, _)
FormatFrom(t, i) ==
    IF i > Len(t) THEN [ok |-> TRUE, out |-> <<>>]
    ELSE IF t[i] = "{"
    THEN IF i < Len(t) /\ t[i + 1] = "{"
         THEN FormatCons(<<"{">>, FormatFrom(t, i + 2))
         ELSE LET j == FirstIndex(t, "}", i + 1)
                  field == SubSeq(t, i + 1, j - 1)
              IN  IF j > Len(t) THEN FormatFailed
                  ELSE IF \E kv \in format_kwargs : kv.name = field
                  THEN FormatCons((CHOOSE kv \in format_kwargs : kv.name = field).value,
                                  FormatFrom(t, j + 1))
                  ELSE FormatFailed
    ELSE IF t[i] = "}"
    THEN IF i < Len(t) /\ t[i + 1] = "}"
         THEN FormatCons(<<"}">>, FormatFrom(t, i + 2))
         ELSE FormatFailed
    ELSE FormatCons(<<t[i]>>, FormatFrom(t, i + 1))

\* url = template.format(**format_kwargs), falling back to the template
ResolveUrl(template) ==
    LET f == FormatFrom(template, 1)
    IN  IF f.ok THEN f.out ELSE template

\* head of the for loop body, lines 421-439: the template is resolved
Resolve(r) ==
    /\ pc[r] = "resolve"
    /\ url' = [url EXCEPT ![r] = ResolveUrl(templates[r][tIdx[r]])]
    /\ pc' = [pc EXCEPT ![r] = "scrape"]
    /\ UNCHANGED <<scenario, scrapeVars, store, csv, resources, templates, tIdx, fault,
                   nElem, cand, all_new, sendVars, exc, fetched, qualified,
                   returned, prev, newCount>>

\* the url of the template run r is at
Url(r) == url[r]

\* where the inner loop stands once n elements of the page are consumed: at
\* the next element, or past the end of found
AfterCandidate(n) == IF n < MaxCards THEN {"cands", "sleep"} ELSE {"sleep"}

\* run_once without the try/except around scrape_site
CaughtByRunOnce_Not(f) == FALSE

\* `except Exception` around scrape_site (lines 441-445) catches the fault
CaughtByRunOnce(f) == TRUE

\* lines 441-447: found = scrape_site(driver, url), the page is fetched
Scrape(r) ==
    /\ pc[r] = "scrape"
    /\ \E f \in RunFaults :
        /\ fault' = [fault EXCEPT ![r] = f]
        /\ fetched' = [fetched EXCEPT ![r] = Append(@, f.kind)]
        /\ IF f.kind = "error" /\ ~CaughtByRunOnce(f)
           THEN /\ pc' = [pc EXCEPT ![r] = "finally"]
                /\ exc' = [exc EXCEPT ![r] = "scrape"]
           ELSE /\ exc' = exc
                /\ IF f.kind \in {"load", "error"}
                   THEN pc' = [pc EXCEPT ![r] = "sleep"]
                   ELSE \E nxt \in AfterCandidate(0) : pc' = [pc EXCEPT ![r] = nxt]
    /\ nElem' = [nElem EXCEPT ![r] = 0]
    /\ UNCHANGED <<scenario, scrapeVars, store, csv, resources, templates, tIdx, url, cand,
                   all_new, sendVars, qualified, returned, prev, newCount>>

\* Skips without the dedup check
Skips_NoDedup(rows, c) == c.link = <<>>

\* `if not link: continue` and `if is_seen(conn, link_norm): continue`
Skips(rows, c) == c.link = <<>> \/ is_seen(rows, LinkNorm(c.link))

\* what scrape_site returns for the listing element e alone
Extracted(r, e) == scrape_site(Url(r), PageOf(<<e>>), fault[r])

\* the listing elements the page can show next to run r: in the scenario
\* "rerun" only what yields a tuple the run before was given as well
Shown(r) ==
    IF scenario = "rerun" /\ r > 1
    THEN {e \in Cards : Extracted(r, e) # <<>> /\ Extracted(r, e)[1] \in prev.returned}
    ELSE Cards

\* lines 449-454: the next tuple of found, its empty-link guard and dedup check
CheckSeen(r) ==
    /\ pc[r] = "cands"
    /\ nElem' = [nElem EXCEPT ![r] = @ + 1]
    /\ \E e \in Shown(r) :
        LET res == Extracted(r, e)
        IN  IF res = <<>>
            THEN \* the element yields no tuple
                 /\ \E nxt \in AfterCandidate(nElem[r] + 1) :
                       pc' = [pc EXCEPT ![r] = nxt]
                 /\ UNCHANGED <<cand, exc, returned>>
            ELSE /\ cand' = [cand EXCEPT ![r] = res[1]]
                 /\ returned' = [returned EXCEPT
                                   ![r] = IF scenario = "rerun" THEN @ \cup {res[1]} ELSE @]
                 /\ \/ /\ Skips(store, res[1])
                       /\ \E nxt \in AfterCandidate(nElem[r] + 1) :
                             pc' = [pc EXCEPT ![r] = nxt]
                       /\ exc' = exc
                    \/ /\ ~Skips(store, res[1])
                       /\ pc' = [pc EXCEPT ![r] = "classify"]
                       /\ exc' = exc
                    \/ \* is_seen raises (sqlite3 error): propagates to finally
                       /\ res[1].link # <<>>
                       /\ pc' = [pc EXCEPT ![r] = "finally"]
                       /\ exc' = [exc EXCEPT ![r] = "store"]
    /\ UNCHANGED <<scenario, scrapeVars, store, csv, resources, templates, tIdx, url, fault,
                   all_new, sendVars, fetched, qualified, prev, newCount>>

\* textpool = " ".join([title or "", desc or ""]).lower()
TextPool(c) == Lower(c.title \o <<" ">> \o c.desc)

\* any(b.lower() in textpool for b in CAR_BRANDS_MODELS)
brand_hit(c) ==
    \E i \in 1..Len(CAR_BRANDS_MODELS) :
        Contains(Lower(CAR_BRANDS_MODELS[i]), TextPool(c))

\* text_contains_keywords(textpool, KEYWORDS)
kw_hit(c) == text_contains_keywords(TextPool(c), KEYWORDS)

\* the policy as `brand_hit and kw_hit`
Qualifies_And(c) == brand_hit(c) /\ kw_hit(c)

\* if brand_hit or kw_hit
Qualifies(c) == brand_hit(c) \/ kw_hit(c)

\* desc[:250]
DESC_SNIPPET_LEN == 250

\* the dict appended to all_new
NewMatch(c) ==
    [site |-> c.site, title |-> c.title, link |-> LinkNorm(c.link),
     price |-> c.price, desc_snippet |-> Take(c.desc, DESC_SNIPPET_LEN)]

\* lines 456-469: classification, mark_seen and append of one candidate
Classify(r) ==
    /\ pc[r] = "classify"
    /\ LET c == cand[r]
           k == LinkNorm(c.link)
       IN  IF Qualifies(c)
           THEN /\ qualified' = [qualified EXCEPT ![r] = @ \cup {k}]
                /\ \/ /\ store' = mark_seen(store, k, c.title, c.site, c.price, Now(r))
                      /\ all_new' = [all_new EXCEPT ![r] = Append(@, NewMatch(c))]
                      /\ newCount' = [newCount EXCEPT ![k] = @ + 1]
                      /\ \E nxt \in AfterCandidate(nElem[r]) :
                            pc' = [pc EXCEPT ![r] = nxt]
                      /\ exc' = exc
                   \/ \* mark_seen raises (sqlite3 error): nothing is inserted
                      /\ pc' = [pc EXCEPT ![r] = "finally"]
                      /\ exc' = [exc EXCEPT ![r] = "store"]
                      /\ UNCHANGED <<store, all_new, newCount>>
           ELSE /\ \E nxt \in AfterCandidate(nElem[r]) :
                      pc' = [pc EXCEPT ![r] = nxt]
                /\ UNCHANGED <<store, all_new, qualified, exc, newCount>>
    /\ UNCHANGED <<scenario, scrapeVars, csv, resources, loopVars, sendVars, fetched,
                   returned, prev>>

\* time.sleep(SLEEP_BETWEEN_SITES), then the next template or the end of the loop
Sleep(r) ==
    /\ pc[r] = "sleep"
    /\ \/ /\ tIdx' = [tIdx EXCEPT ![r] = @ + 1]
          /\ pc' = [pc EXCEPT
                      ![r] = IF tIdx[r] + 1 > Len(templates[r]) THEN "finally"
                             ELSE "resolve"]
          /\ exc' = exc
       \/ \* KeyboardInterrupt during the wait
          /\ pc' = [pc EXCEPT ![r] = "finally"]
          /\ exc' = [exc EXCEPT ![r] = "interrupt"]
          /\ tIdx' = tIdx
    /\ cand' = [cand EXCEPT ![r] = NoCand]
    /\ UNCHANGED <<scenario, scrapeVars, store, csv, resources, templates, url, fault, nElem,
                   all_new, sendVars, fetched, qualified, returned, prev,
                   newCount>>

\* finally: driver.quit(); conn.close()
Finally(r) ==
    /\ pc[r] = "finally"
    /\ \E quit_ok \in BOOLEAN :
        IF quit_ok
        THEN /\ driver' = [driver EXCEPT ![r] = "quit"]
             /\ conn' = [conn EXCEPT ![r] = "closed"]
             /\ pc' = [pc EXCEPT ![r] = IF exc[r] # "none" THEN "raised" ELSE "csv"]
        ELSE /\ UNCHANGED <<driver, conn>>
             /\ pc' = [pc EXCEPT ![r] = "raised"]
    /\ cand' = [cand EXCEPT ![r] = NoCand]
    /\ UNCHANGED <<scenario, scrapeVars, store, csv, templates, tIdx, url, fault, nElem, all_new,
                   sendVars, exc, fetched, qualified, returned, prev,
                   newCount>>

\* the header row csv.DictWriter.writeheader() writes
CSV_HEADER == <<"l", "i", "n", "k">>

\* the audit rows when only the first new match is written
CsvRows_First(news) == <<news[1].link>>

\* the rows of the audit log, by their link column
CsvRows(news) == [i \in 1..Len(news) |-> news[i].link]

\* SendPc without the `if count >= MAX_SEND_PER_RUN: break`
SendPc_NoCap(news, i, n) == IF i > Len(news) THEN "done" ELSE "send"

\* position of the send loop: `for e in all_new` with `if count >= MAX: break`
SendPc(news, i, n) ==
    IF i > Len(news) \/ n >= MAX_SEND_PER_RUN THEN "done" ELSE "send"

\* lines 476-488 and 501-502: the audit log, count = 0.  The credentials,
\* loaded from .env at import, are first read by the send loop that starts
\* here, so the value the process loaded is fixed at this step.
WriteCsv(r) ==
    /\ pc[r] = "csv"
    /\ IF all_new[r] = <<>>
       THEN /\ pc' = [pc EXCEPT ![r] = "done"]
            /\ UNCHANGED <<csv, creds, exc>>
       ELSE \/ /\ csv' = [exists |-> TRUE,
                          rows |-> (IF csv.exists THEN csv.rows ELSE <<CSV_HEADER>>)
                                   \o CsvRows(all_new[r])]
               /\ pc' = [pc EXCEPT ![r] = SendPc(all_new[r], 1, 0)]
               /\ exc' = exc
               /\ \E have \in BOOLEAN : creds' = [creds EXCEPT ![r] = have]
            \/ \* open(CSV_FILE, "a") raises: the file is as it was
               /\ UNCHANGED <<csv, creds>>
               /\ pc' = [pc EXCEPT ![r] = "raised"]
               /\ exc' = [exc EXCEPT ![r] = "csv"]
            \/ \* open succeeds (an absent file is created) and the buffered
               \* rows fail to reach the file when it is flushed and closed
               /\ csv' = [csv EXCEPT !.exists = TRUE]
               /\ creds' = creds
               /\ pc' = [pc EXCEPT ![r] = "raised"]
               /\ exc' = [exc EXCEPT ![r] = "csv"]
    /\ UNCHANGED <<scenario, scrapeVars, store, resources, loopVars, all_new, count, sIdx,
                   warned, requests, handed, delivered, lastResp, lastOk,
                   attempts, fetched, qualified,
                   returned, prev, newCount>>

\* send_whatsapp(msg) for the match the send loop is at, and the rest of the
\* iteration: i is the gateway's answer in Responses, 0 when no request is made
SendOutcome(r, i, ok) ==
    LET e == all_new[r][sIdx[r]]
        n == IF ok THEN count[r] + 1 ELSE count[r]
    IN  /\ handed' = [handed EXCEPT ![r] = Append(@, e.link)]
        /\ delivered' = [delivered EXCEPT ![r] = IF ok THEN Append(@, e.link) ELSE @]
        /\ lastResp' = [lastResp EXCEPT ![r] = IF scenario = "seq" THEN i ELSE @]
        /\ lastOk' = [lastOk EXCEPT ![r] = IF scenario = "seq" THEN ok ELSE @]
        /\ attempts' = [attempts EXCEPT
                           ![e.link] = IF scenario # "seq" THEN @
                                       ELSE IF @ # "none" THEN "repeated"
                                       ELSE IF ok THEN "sent" ELSE "failed"]
        /\ count' = [count EXCEPT ![r] = n]
        /\ sIdx' = [sIdx EXCEPT ![r] = @ + 1]
        /\ pc' = [pc EXCEPT ![r] = SendPc(all_new[r], sIdx[r] + 1, n)]

\* one iteration of the send loop, lines 489-499
Send(r) ==
    /\ pc[r] = "send"
    /\ IF ~creds[r]
       THEN \* lines 180-182: the warning is printed, no request is made
            /\ SendOutcome(r, 0, SendResult[1][1])
            /\ warned' = [warned EXCEPT ![r] = @ + 1]
            /\ requests' = requests
       ELSE \E i \in 1..Len(Responses) :
                /\ SendOutcome(r, i, SendResult[i][2])
                /\ requests' = [requests EXCEPT ![r] = @ + 1]
                /\ warned' = warned
    /\ UNCHANGED <<scenario, scrapeVars, store, csv, resources, loopVars, all_new, creds,
                   exc, fetched, qualified, returned, prev, newCount>>

\* the process ends (normally or with a traceback): its locals are gone
Exit(r) ==
    /\ pc[r] \in {"done", "raised"}
    /\ pc' = [pc EXCEPT ![r] = "exited"]
    /\ prev' = IF scenario = "rerun"
               THEN [completed |-> pc[r] = "done", returned |-> returned[r],
                     templates |-> templates[r]]
               ELSE prev
    /\ conn' = [conn EXCEPT ![r] = "none"]
    /\ driver' = [driver EXCEPT ![r] = "none"]
    /\ templates' = [templates EXCEPT ![r] = <<>>]
    /\ tIdx' = [tIdx EXCEPT ![r] = 1]
    /\ url' = [url EXCEPT ![r] = <<>>]
    /\ fault' = [fault EXCEPT ![r] = NoFault]
    /\ nElem' = [nElem EXCEPT ![r] = 0]
    /\ cand' = [cand EXCEPT ![r] = NoCand]
    /\ all_new' = [all_new EXCEPT ![r] = <<>>]
    /\ count' = [count EXCEPT ![r] = 0]
    /\ sIdx' = [sIdx EXCEPT ![r] = 1]
    /\ creds' = [creds EXCEPT ![r] = FALSE]
    /\ warned' = [warned EXCEPT ![r] = 0]
    /\ requests' = [requests EXCEPT ![r] = 0]
    /\ exc' = [exc EXCEPT ![r] = "none"]
    /\ fetched' = [fetched EXCEPT ![r] = <<>>]
    /\ qualified' = [qualified EXCEPT ![r] = {}]
    /\ handed' = [handed EXCEPT ![r] = <<>>]
    /\ delivered' = [delivered EXCEPT ![r] = <<>>]
    /\ lastResp' = [lastResp EXCEPT ![r] = 0]
    /\ lastOk' = [lastOk EXCEPT ![r] = FALSE]
    /\ returned' = [returned EXCEPT ![r] = {}]
    /\ UNCHANGED <<scenario, scrapeVars, store, csv, newCount, attempts>>

Next ==
    \E r \in Runs :
        \/ Launch(r) \/ InitDb(r) \/ InitDriver(r) \/ ReadTemplates(r)
        \/ Resolve(r) \/ Scrape(r) \/ CheckSeen(r) \/ Classify(r) \/ Sleep(r) \/ Finally(r)
        \/ WriteCsv(r) \/ Send(r) \/ Exit(r)

\* the tool as scheduled: one run after the other
Spec == Init /\ [][Next]_vars

\* a run repeated against sources that return the same candidates
InitRerun == InitIn("rerun")
SpecRerun == InitRerun /\ [][Next]_vars

\* two runs overlapping in time on the same store
InitOverlap == InitIn("overlap")
SpecOverlap == InitOverlap /\ [][Next]_vars

\* most pieces a template line of the resolution scenario is made of
MaxTokens == 3

\* pieces of template lines: a literal, recognized placeholders, an
\* unrecognized and a positional placeholder, single braces, doubled braces
T_LIT == <<"a">>
T_YEAR == <<"{", "y", "e", "a", "r", "}">>
T_KW == <<"{", "k", "w", "}">>
T_UNKNOWN == <<"{", "z", "z", "}">>
T_POSITIONAL == <<"{", "}">>
T_OPEN == <<"{", "a">>
T_CLOSE == <<"a", "}">>
T_ESC_OPEN == <<"{", "{">>
T_ESC_CLOSE == <<"}", "}">>
Tokens ==
    {T_LIT, T_YEAR, T_KW, T_UNKNOWN, T_POSITIONAL, T_OPEN, T_CLOSE,
     T_ESC_OPEN, T_ESC_CLOSE}

\* the template lines of the resolution scenario, as their pieces
TokenSeqs == UNION {[1..n -> Tokens] : n \in 1..MaxTokens}

\* the template line made of the pieces ts
TemplateOf(ts) == Join(<<>>, ts)

\* template resolution alone: run 1 holds store and driver, has read a
\* one-line template file and is at the head of the for loop
InitResolve ==
    /\ scenario = "resolve"
    /\ pc = [r \in Runs |-> IF r = 1 THEN "resolve" ELSE "idle"]
    /\ conn = [r \in Runs |-> IF r = 1 THEN "open" ELSE "none"]
    /\ driver = [r \in Runs |-> IF r = 1 THEN "live" ELSE "none"]
    /\ \E ts \in TokenSeqs :
          templates = [r \in Runs |-> IF r = 1 THEN <<TemplateOf(ts)>> ELSE <<>>]
    /\ url = [r \in Runs |-> <<>>]
    /\ fault = [r \in Runs |-> NoFault]
    /\ page = PageOf(<<>>)
    /\ found = <<>>
    /\ InitRest
NextResolve == \E r \in Runs : Resolve(r)
SpecResolve == InitResolve /\ [][NextResolve]_vars

\* the pages a site can render: up to MaxCards listing elements
Pages == {PageOf(es) : es \in UNION {[1..n -> Cards] : n \in 0..MaxCards}}

\* the faults scrape_site can meet on a page: none, the page fails to load,
\* an exception leaves scrape_site, the site-specific flow raises before any
\* element or after some were parsed, the anchor fallback raises as well
ScrapeFaults ==
    {NoFault, LoadFault, ErrorFault}
        \cup {[kind |-> "flow", flow_at |-> n, anchors_at |-> -1] : n \in 0..(MaxCards - 1)}
        \cup {[kind |-> "anchors", flow_at |-> 0, anchors_at |-> m] : m \in 0..(MaxCards - 1)}

\* found = scrape_site(driver, url) on a whole page, lines 441-445
ScrapePage(r) ==
    /\ scenario = "scrape"
    /\ pc[r] = "scrape"
    /\ found' = IF fault[r].kind = "error" THEN <<>>
                ELSE scrape_site(url[r], page, fault[r])
    /\ pc' = [pc EXCEPT ![r] = "cands"]
    /\ UNCHANGED <<scenario, page, store, csv, resources, loopVars, all_new,
                   sendVars, exc, fetched, qualified, returned, prev, newCount>>

\* scrape_site alone: run 1 holds store and driver, has resolved the url of
\* its one template and the driver meets a page and a fault
InitScrape ==
    /\ scenario = "scrape"
    /\ pc = [r \in Runs |-> IF r = 1 THEN "scrape" ELSE "idle"]
    /\ conn = [r \in Runs |-> IF r = 1 THEN "open" ELSE "none"]
    /\ driver = [r \in Runs |-> IF r = 1 THEN "live" ELSE "none"]
    /\ \E t \in Range(SEARCH_URLS) :
          /\ templates = [r \in Runs |-> IF r = 1 THEN <<t>> ELSE <<>>]
          /\ url = [r \in Runs |-> IF r = 1 THEN ResolveUrl(t) ELSE <<>>]
    /\ \E f \in ScrapeFaults :
          fault = [r \in Runs |-> IF r = 1 THEN f ELSE NoFault]
    /\ page \in Pages
    /\ found = <<>>
    /\ InitRest
NextScrape == \E r \in Runs : ScrapePage(r)
SpecScrape == InitScrape /\ [][NextScrape]_vars

\* ------------------------------------------------------------------------
\* Claims
\* ------------------------------------------------------------------------

\* run r has left the finally block without an exception
PastFinally(r) == pc[r] \in {"csv", "send", "done"}

\* C1: in every run the number of successful sends never exceeds
\* MAX_SEND_PER_RUN, and once the run is in its audit/dispatch phase or done,
\* every key that qualified in the run is in the seen store, whether its
\* match was sent, failed to send or was cut off by the cap.
C1_CapAndRecorded ==
    \A r \in Runs :
        /\ Len(delivered[r]) <= MAX_SEND_PER_RUN
        /\ PastFinally(r) => \A k \in qualified[r] : is_seen(store, k)

\* a run that ended with more new matches than the cap: the cap's worth was
\* delivered, the last match was never handed over, all are in the store
C1_Witness ==
    \E r \in Runs :
        /\ pc[r] = "done"
        /\ Len(all_new[r]) > MAX_SEND_PER_RUN
        /\ Len(delivered[r]) = MAX_SEND_PER_RUN
        /\ Len(handed[r]) < Len(all_new[r])
        /\ \A i \in 1..Len(all_new[r]) : is_seen(store, all_new[r][i].link)

\* C2 (as claimed): a candidate whose normalized link is empty is never
\* inserted into the seen store, never appended to a new-matches list and
\* never handed to the gateway.
C2_EmptyKeyNeverRecorded ==
    /\ \A row \in store : row.link # <<>>
    /\ \A r \in Runs :
        /\ \A i \in 1..Len(all_new[r]) : all_new[r][i].link # <<>>
        /\ \A i \in 1..Len(handed[r]) : handed[r][i] # <<>>

\* C3: a run that follows a completed run on the same store, with the same
\* templates and with sources that return only candidates the completed run
\* was given, finds no new match, records nothing (no row of its own in the
\* store, no audit rows) and hands nothing to the gateway.
C3_RerunFindsNothing ==
    \A r \in Runs :
        ( /\ r > 1
          /\ pc[r] \notin {"idle", "exited"}
          /\ prev.completed
          /\ templates[r] \in {<<>>, prev.templates}
          /\ returned[r] \subseteq prev.returned )
        => /\ all_new[r] = <<>>
           /\ qualified[r] = {}
           /\ handed[r] = <<>>
           /\ pc[r] # "send"
           /\ \A row \in store : row.first_seen # Now(r)

\* the second run has ended normally after it was given candidates, among
\* them a qualifying one that the first run recorded
C3_Witness ==
    /\ pc[2] = "done"
    /\ prev.completed
    /\ templates[2] = prev.templates
    /\ \E c \in returned[2] :
        /\ Qualifies(c)
        /\ \E row \in store : row.link = LinkNorm(c.link) /\ row.first_seen = Now(1)

\* C4 (as claimed): whenever run_once has returned or raised, the driver it
\* created has been quit and the store connection it opened has been closed.
C4_ResourcesReleased ==
    \A r \in Runs :
        pc[r] \in {"done", "raised"} => driver[r] # "live" /\ conn[r] # "open"

\* C5: no failure of scrape_site propagates out of the template loop, and
\* the loop reaches every template in file order: scrape_site has been
\* called for each template before the one the loop is at, and for all of
\* them once the run is past the loop without an exception.
C5_FetchFailureDoesNotAbort ==
    \A r \in Runs :
        /\ exc[r] # "scrape"
        /\ pc[r] \in {"resolve", "scrape"} => Len(fetched[r]) = tIdx[r] - 1
        /\ pc[r] \in {"cands", "classify", "sleep"} => Len(fetched[r]) = tIdx[r]
        /\ PastFinally(r) => Len(fetched[r]) = Len(templates[r])

\* the first template's page failed to load or scrape_site raised, the
\* second template was still fetched and gave the run a new match
C5_Witness ==
    \E r \in Runs :
        /\ pc[r] = "done"
        /\ Len(fetched[r]) = 2
        /\ fetched[r][1] \in {"load", "error"}
        /\ fetched[r][2] = "none"
        /\ all_new[r] # <<>>

\* the claim's match criterion: a brand/model phrase or a keyword phrase is a
\* substring of the lowercased "title desc"
C6_Phrases == Range(CAR_BRANDS_MODELS) \cup Range(KEYWORDS)
C6_Matches(c) ==
    \E p \in C6_Phrases : Contains(Lower(p), Lower(c.title \o <<" ">> \o c.desc))

\* the links of a new-matches list
C6_Links(news) == {news[i].link : i \in 1..Len(news)}

\* the step of run r that classifies its candidate (not yet seen, link not
\* empty): a matching one is recorded and appended, unless the store itself
\* fails; a non-matching one changes nothing
C6_Classified(r) ==
    (pc[r] = "classify" /\ pc'[r] # "classify") =>
        LET c == cand[r]
            k == SplitFirst(c.link, "?")
        IN  IF C6_Matches(c)
            THEN \/ exc'[r] = "store"
                 \/ /\ is_seen(store', k)
                    /\ Len(all_new'[r]) = Len(all_new[r]) + 1
                    /\ all_new'[r][Len(all_new'[r])].link = k
            ELSE store' = store /\ all_new' = all_new

\* C6: the store and the new-matches lists grow only by a candidate that
\* contains a brand or a keyword phrase, the audit log only by the links of
\* a new-matches list and the dispatcher is handed only such links; a
\* not-yet-seen candidate with a link that contains a brand OR a keyword
\* phrase is recorded and appended.
C6_OnlyMatchesRecorded ==
    [][ /\ \A r \in Runs : C6_Classified(r)
        /\ store' # store => \E r \in Runs : pc[r] = "classify" /\ C6_Matches(cand[r])
        /\ \A r \in Runs :
              Len(all_new'[r]) > Len(all_new[r])
                  => pc[r] = "classify" /\ C6_Matches(cand[r])
        /\ csv'.rows # csv.rows =>
              \E r \in Runs :
                  /\ pc[r] = "csv"
                  /\ Len(csv'.rows) > Len(csv.rows)
                  /\ \A i \in (Len(csv.rows) + 1)..Len(csv'.rows) :
                        csv'.rows[i] \in C6_Links(all_new[r]) \cup {CSV_HEADER}
        /\ \A r \in Runs :
              Len(handed'[r]) > Len(handed[r])
                  => handed'[r][Len(handed'[r])] \in C6_Links(all_new[r])
      ]_vars

\* a listing with a keyword but no brand was recorded and appended, and a
\* listing with neither has just been classified and is not in the store
C6_Witness ==
    \E r \in Runs :
        /\ pc[r] \in {"cands", "sleep"}
        /\ cand[r].link # <<>>
        /\ ~C6_Matches(cand[r])
        /\ ~is_seen(store, LinkNorm(cand[r].link))
        /\ \E i \in 1..Len(all_new[r]) :
              /\ ~brand_hit([title |-> all_new[r][i].title, desc |-> all_new[r][i].desc_snippet])
              /\ kw_hit([title |-> all_new[r][i].title, desc |-> all_new[r][i].desc_snippet])
              /\ is_seen(store, all_new[r][i].link)

\* the store rows whose link, query string removed, is b
C7_Rows(b) == {row \in store : SplitFirst(row.link, "?") = b}

\* C7: the key is the link without its query string and the store is one
\* namespace: no stored key has a query string, and all candidates whose
\* links agree up to the query string have, over all pages, templates,
\* sites and runs, at most one seen record and one new match between them
\* (exactly one once any of them was recorded).
C7_OneRecordPerStrippedLink ==
    \A b \in {SplitFirst(e.href, "?") : e \in Cards} :
        LET ks == {k \in Keys : SplitFirst(k, "?") = b}
        IN  /\ \A row \in C7_Rows(b) : row.link = b
            /\ Cardinality(C7_Rows(b)) <= 1
            /\ \A k1, k2 \in ks : k1 # k2 => newCount[k1] + newCount[k2] <= 1
            /\ \A k \in ks : newCount[k] <= 1
            /\ \A k \in ks : newCount[k] = 1 => C7_Rows(b) # {}

\* run 2 has met, on another site, a qualifying candidate whose link differs
\* only in the query string from one that run 1 recorded: it was suppressed
C7_Witness ==
    /\ pc[2] \in {"cands", "sleep"}
    /\ Contains(<<"?">>, cand[2].link)
    /\ Qualifies(cand[2])
    /\ all_new[2] = <<>>
    /\ \E row \in store :
        /\ row.link = SplitFirst(cand[2].link, "?")
        /\ row.first_seen = Now(1)
        /\ row.site # cand[2].site
        /\ row.title # cand[2].title
        /\ newCount[row.link] = 1

\* C8: the store never holds two rows with the same key, and a row once
\* inserted is never changed or removed: a repeated mark_seen for a key
\* leaves the title, site, price and first-seen time of the first call.
C8_InsertIfAbsent ==
    [][ /\ \A row \in store : row \in store'
        /\ \A r1, r2 \in store' : r1.link = r2.link => r1 = r2
        /\ \A r \in Runs :
              ( /\ pc[r] = "classify" /\ pc'[r] # "classify"
                /\ is_seen(store, LinkNorm(cand[r].link)) )
                  => store' = store
      ]_vars

\* mark_seen was called twice for one key, by the two overlapping runs, and
\* the store holds the one row of the first call
C8_Witness ==
    \E k \in Keys :
        /\ newCount[k] = 2
        /\ Cardinality({row \in store : row.link = k}) = 1
        /\ \E i \in 1..Len(all_new[1]) : all_new[1][i].link = k
        /\ \E i \in 1..Len(all_new[2]) : all_new[2][i].link = k

\* C9 (as claimed): no normalized link is notified by both of two
\* overlapping runs.
C9_NoDuplicateNotification ==
    \A k \in Keys : ~(k \in Range(delivered[1]) /\ k \in Range(delivered[2]))

\* for each gateway answer: an error marker occurs somewhere in its body
C10_MarkerAnywhere ==
    [i \in 1..Len(Responses) |->
        \/ Contains(APIKEY_INVALID, Responses[i].text)
        \/ Contains(ERROR_MARKER, Lower(Responses[i].text))]

\* C10 (as claimed): send_whatsapp returns True only for an answer with
\* status 200 whose body contains no error marker at any position.
C10_SuccessOnlyWithoutMarker ==
    \A r \in Runs :
        (lastResp[r] > 0 /\ lastOk[r])
            => /\ Responses[lastResp[r]].kind = "http"
               /\ Responses[lastResp[r]].status = 200
               /\ ~C10_MarkerAnywhere[lastResp[r]]

\* C11 (as claimed): in a run without gateway credentials that has new
\* matches, no gateway request is made, nothing is delivered, the run ends
\* normally and the missing-credentials warning is printed exactly once.
C11_MissingCredsLoggedOnce ==
    \A r \in Runs :
        (pc[r] = "done" /\ all_new[r] # <<>> /\ ~creds[r])
            => /\ requests[r] = 0
               /\ delivered[r] = <<>>
               /\ warned[r] = 1

\* C12 (as claimed): whenever the audit log has rows, its first row is the
\* header and no later row is.
C12_HeaderOnceAndFirst ==
    csv.rows # <<>> =>
        /\ csv.rows[1] = CSV_HEADER
        /\ \A i \in 2..Len(csv.rows) : csv.rows[i] # CSV_HEADER

\* the value the claim gives each recognized placeholder of the scenario
C13_YEAR_VALUE == <<"2", "0", "1", "9">>
C13_KW_VALUE == <<"u", "n", "f", "+", "b", "l", "+", "r", "e">>

\* pieces that make str.format raise: unrecognized or positional field,
\* single brace
C13_Bad == {T_UNKNOWN, T_POSITIONAL, T_OPEN, T_CLOSE}

\* what a piece resolves to: the placeholder's value, one brace for a
\* doubled brace, itself otherwise
C13_Value(t) ==
    IF t = T_YEAR THEN C13_YEAR_VALUE
    ELSE IF t = T_KW THEN C13_KW_VALUE
    ELSE IF t = T_ESC_OPEN THEN <<"{">>
    ELSE IF t = T_ESC_CLOSE THEN <<"}">>
    ELSE t

\* the pieces ts make up the template that run r has resolved
C13_ResolvedFrom(r, ts) ==
    /\ pc[r] = "scrape"
    /\ tIdx[r] = 1
    /\ templates[r] = <<TemplateOf(ts)>>

\* C13 (amended): a template with an unrecognized or positional placeholder
\* or a single brace is used unchanged; otherwise every recognized
\* placeholder is replaced by its configured value (kw: the first three
\* keywords joined by '+') and every doubled brace by a single one.
C13_Resolution ==
    \A r \in Runs : \A ts \in TokenSeqs :
        C13_ResolvedFrom(r, ts) =>
            url[r] = IF \E i \in 1..Len(ts) : ts[i] \in C13_Bad
                     THEN TemplateOf(ts)
                     ELSE TemplateOf([i \in 1..Len(ts) |-> C13_Value(ts[i])])

\* "{year}a{kw}" has resolved to "2019aunf+bl+re"
C13_Witness ==
    /\ C13_ResolvedFrom(1, <<T_YEAR, T_LIT, T_KW>>)
    /\ url[1] = C13_YEAR_VALUE \o T_LIT \o C13_KW_VALUE

\* C13 (as claimed): a template with no recognized placeholder, with an
\* unrecognized placeholder or with malformed braces is used unchanged;
\* otherwise every recognized placeholder is replaced by its value.
C13_UnchangedWithoutPlaceholder ==
    \A r \in Runs : \A ts \in TokenSeqs :
        C13_ResolvedFrom(r, ts) =>
            IF \/ \E i \in 1..Len(ts) : ts[i] \in C13_Bad
               \/ \A i \in 1..Len(ts) : ts[i] \notin {T_YEAR, T_KW}
            THEN url[r] = TemplateOf(ts)
            ELSE \A i \in 1..Len(ts) :
                    ts[i] \in {T_YEAR, T_KW} => Contains(C13_Value(ts[i]), url[r])

\* the last n rows of the audit log
C14_LastRows(n) ==
    IF n > Len(csv.rows) THEN <<>>
    ELSE SubSeq(csv.rows, Len(csv.rows) - n + 1, Len(csv.rows))

\* C14: a run writes to the audit log and sends only after scrape_site was
\* called for every template; when a send is attempted all new matches of
\* the run are the last rows of the audit log; the new-matches list only
\* grows at its end, while templates and their candidates are met in order,
\* and the i-th send attempt is for the i-th new match.
C14_OutputAfterTemplatesInOrder ==
    [][ \A r \in Runs :
          /\ Len(handed'[r]) > Len(handed[r]) =>
                /\ Len(fetched[r]) = Len(templates[r])
                /\ C14_LastRows(Len(all_new[r]))
                       = [i \in 1..Len(all_new[r]) |-> all_new[r][i].link]
                /\ Len(handed'[r]) = Len(handed[r]) + 1
                /\ handed'[r][Len(handed'[r])] = all_new[r][Len(handed'[r])].link
          /\ (pc[r] = "csv" /\ csv'.rows # csv.rows) =>
                /\ Len(fetched[r]) = Len(templates[r])
                /\ handed[r] = <<>>
          /\ pc'[r] # "exited" =>
                /\ tIdx'[r] >= tIdx[r]
                /\ tIdx'[r] = tIdx[r] /\ pc[r] \in {"cands", "classify"}
                      => nElem'[r] >= nElem[r]
                /\ Len(all_new'[r]) >= Len(all_new[r])
                /\ SubSeq(all_new'[r], 1, Len(all_new[r])) = all_new[r]
                /\ pc[r] \in {"csv", "send", "done"} => all_new'[r] = all_new[r]
      ]_vars

\* in a run over two templates that found a match under each, the first
\* match was handed to the gateway, the second not yet, both are in the log
C14_Witness ==
    \E r \in Runs :
        /\ pc[r] = "send"
        /\ Len(templates[r]) = 2
        /\ Len(all_new[r]) = 2
        /\ all_new[r][1].site # all_new[r][2].site
        /\ handed[r] = <<all_new[r][1].link>>
        /\ C14_LastRows(2) = <<all_new[r][1].link, all_new[r][2].link>>

\* C15 (as claimed): in no run is send_whatsapp called more than
\* MAX_SEND_PER_RUN times, whatever the sends return.
C15_AttemptsCapped ==
    \A r \in Runs : Len(handed[r]) <= MAX_SEND_PER_RUN

\* C16: over runs that do not overlap no key is handed to the gateway more
\* than once: a new-matches list never holds a key twice, the row of each of
\* its keys was inserted by that same run (a key recorded by an earlier run
\* is not a new match), and no key has had a second send attempt.
C16_NoLinkHandedTwice ==
    /\ \A k \in Keys : attempts[k] # "repeated"
    /\ \A r \in Runs :
        /\ \A i, j \in 1..Len(all_new[r]) :
              i # j => all_new[r][i].link # all_new[r][j].link
        /\ \A i \in 1..Len(all_new[r]) : \A row \in store :
              row.link = all_new[r][i].link => row.first_seen = Now(r)

\* run 2 has a new match of its own and has just met, and skipped, a
\* qualifying listing whose key run 1 recorded and handed to the gateway
C16_Witness ==
    /\ pc[2] \in {"cands", "sleep"}
    /\ all_new[2] # <<>>
    /\ cand[2].link # <<>>
    /\ Qualifies(cand[2])
    /\ attempts[LinkNorm(cand[2].link)] \in {"sent", "failed"}
    /\ \E row \in store :
          row.link = LinkNorm(cand[2].link) /\ row.first_seen = Now(1)

\* C17: every send attempt is the first one for its key, whose listing is
\* then already in the seen store, and the send loop moves on to the next
\* new match whatever the send returned; a key whose send failed keeps that
\* outcome for good: neither its run nor a later run attempts it again.
C17_FailedSendNotRetried ==
    [][ /\ \A r \in Runs :
              Len(handed'[r]) > Len(handed[r]) =>
                  LET k == handed'[r][Len(handed'[r])]
                  IN  /\ attempts[k] = "none"
                      /\ attempts'[k] \in {"sent", "failed"}
                      /\ attempts'[k] = "failed" <=> Len(delivered'[r]) = Len(delivered[r])
                      /\ \E row \in store : row.link = k
                      /\ sIdx'[r] = sIdx[r] + 1
                      /\ sIdx'[r] = Len(handed'[r]) + 1
        /\ \A k \in Keys : attempts[k] = "failed" => attempts'[k] = "failed"
      ]_vars

\* run 1's send for a key failed; run 2 has met a qualifying listing with
\* that key again and has skipped it, with no new match and no send
C17_Witness ==
    /\ pc[2] \in {"cands", "sleep"}
    /\ cand[2].link # <<>>
    /\ Qualifies(cand[2])
    /\ attempts[LinkNorm(cand[2].link)] = "failed"
    /\ all_new[2] = <<>>
    /\ handed[2] = <<>>
    /\ \E row \in store :
          row.link = LinkNorm(cand[2].link) /\ row.first_seen = Now(1)

\* the keys of the rows that run r inserted into the seen store
C18_RecordedBy(r) == {row.link : row \in {x \in store : x.first_seen = Now(r)}}

\* C18 (as claimed): when a run has ended, normally or by raising, every key
\* it inserted into the seen store has a row in the audit log.
C18_RecordedImpliesAudited ==
    \A r \in Runs :
        pc[r] \in {"done", "raised"} =>
            \A k \in C18_RecordedBy(r) : \E i \in 1..Len(csv.rows) : csv.rows[i] = k

\* C19 (as claimed): no store error leaves the template loop, and a run
\* that had acquired the store and the driver and has templates raises, if
\* at all, only from the audit-log/dispatch phase, after it has processed
\* every template.
C19_OnlyStartupEndsEarly ==
    \A r \in Runs :
        /\ exc[r] # "store"
        /\ ( /\ pc[r] = "raised"
             /\ conn[r] # "none" /\ driver[r] # "none"
             /\ templates[r] # <<>> )
            => /\ exc[r] = "csv"
               /\ Len(fetched[r]) = Len(templates[r])

\* C20 (as claimed): for a known site label every listing scrape_site
\* returns is the dedicated strategy's tuple of a listing element of the
\* page; the anchor fallback contributes nothing there, whether or not the
\* dedicated strategy fails.
C20_KnownLabelOnlyDedicated ==
    \A r \in Runs :
        ( /\ scenario = "scrape"
          /\ pc[r] = "cands"
          /\ detect_site_label(url[r]) \in KnownLabels )
        => \A i \in 1..Len(found) :
              \E e \in Range(page.elems) :
                  found[i] = WithSite(detect_site_label(url[r]),
                                      FlowParse(detect_site_label(url[r]), e))

====
